---- MODULE Spec2Model ----
(***************************************************************************)
(* Model of src/database_setup.py: the AJE spreadsheet-to-SQL loader.      *)
(*                                                                         *)
(* A DataFrame is [cols |-> set of column names,                           *)
(*                 rows |-> sequence of [idx |-> label, val |-> col->value]]*)
(* so that pandas' index labels, which the column assignments of           *)
(* extract_table_data align on, are part of the state.  The store is a     *)
(* function from table name to the sequence of rows it holds.              *)
(***************************************************************************)
EXTENDS Integers, Sequences, FiniteSets, TLC

VARIABLES
    pc,            \* main's position; the "return ..." values are its exits
    df,            \* the DataFrame read from the sheet
    tables_data,   \* extract_table_data's result: table name -> DataFrame
    store,         \* the database: table name -> rows; no table before the DDL ran
    results,       \* load_data_to_database's result map
    counts,        \* validate_data_integrity's result map
    report,        \* what main prints under DATOS CARGADOS and TOTAL
    attempts,      \* the tables whose insert was attempted, in order
    faults,        \* the store errors of the last load and validation
    runs,          \* calls of load_data_to_database so far
    prev_results,  \* results of the call before the last one
    prev_store     \* the store as the last call found it

vars == <<pc, df, tables_data, store, results, counts, report, attempts, faults,
          runs, prev_results, prev_store>>

(***************************************************************************)
(* Bounds of the model.                                                    *)
(***************************************************************************)
MaxRows == 2        \* rows of the source sheet
MaxFaults == 1      \* store errors (rejected batches, failed queries) of one run
MaxLoads == 2       \* calls of load_data_to_database against the same store

(***************************************************************************)
(* Values.  NaN is pandas' missing value (an empty spreadsheet cell); it   *)
(* is sent to the store as NULL.                                           *)
(***************************************************************************)
NaN == 0 - 1

(***************************************************************************)
(* The source sheet.                                                       *)
(***************************************************************************)
RequiredColumns ==
    {"id_tipo_documento", "nombre", "descripcion",
     "id_canal_cliente", "nombre.1", "descripcion.1",
     "id_tipo_pago", "nombre_tipo_pago", "descripcion.2",
     "id_cargo_trabajador", "nombre.2", "descripcion.4",
     "id_marca_producto", "nombre_marca",
     "id_categoria_producto", "nombre_categoria", "descripcion.5",
     "id_trabajador", "nombre trabajador", "correo", "telefono.1",
     "id_cliente", "nombre_cliente", "numero_documento", "correo.1",
     "telefono.2", "direccion",
     "id_producto", "descripcion.6", "precio",
     "id_pedido", "fecha", "monto_total",
     "id_detalle_pedido", "cantidad", "precio_unitario"}

OptionalColumns == {"codigo_formato_producto", "id_promocion"}

\* One row of the sheet: an order line of order c, placed by customer c, for
\* product p (p = NaN: the product cells of the row are empty).  The document
\* type follows the customer; the other reference data are the same in all rows.
SourceRow(c, p) ==
    [col \in RequiredColumns \cup OptionalColumns |->
        CASE col \in {"id_cliente", "nombre_cliente", "numero_documento",
                      "correo.1", "telefono.2", "direccion",
                      "id_tipo_documento", "nombre", "descripcion"} -> c
          [] col \in {"id_producto", "descripcion.6", "precio"} -> p
          [] col \in {"id_marca_producto", "nombre_marca",
                      "id_categoria_producto", "nombre_categoria",
                      "descripcion.5"} -> IF p = NaN THEN NaN ELSE 1
          [] col \in {"id_pedido", "id_detalle_pedido", "fecha",
                      "monto_total", "cantidad", "precio_unitario"} -> c
          [] col = "codigo_formato_producto" ->
                 IF p = NaN \/ c = 1 THEN NaN ELSE 1
          [] col = "id_promocion" -> IF c = 1 THEN NaN ELSE 1
          [] OTHER -> 1]

CustomerIds == {1, 2}

ProductIds == {NaN, 1}

RowPool == {SourceRow(c, p) : c \in CustomerIds, p \in ProductIds}

SeqsUpTo(S, n) == UNION {[1..k -> S] : k \in 0..n}

\* pd.read_excel: a RangeIndex 0..n-1 over the rows; the optional columns are
\* in the sheet or not.
ReadExcelResult(rows, optional) ==
    [cols |-> RequiredColumns \cup optional,
     rows |-> [k \in 1..Len(rows) |->
                 [idx |-> k - 1,
                  val |-> [col \in RequiredColumns \cup optional |-> rows[k][col]]]]]

Sources ==
    {ReadExcelResult(rows, optional) :
        rows \in SeqsUpTo(RowPool, MaxRows), optional \in SUBSET OptionalColumns}

EmptyFrame == [cols |-> {}, rows |-> <<>>]

(***************************************************************************)
(* pandas operations used by extract_table_data.                           *)
(***************************************************************************)
RECURSIVE SelectIndices(_, _, _)
SelectIndices(rows, keep, k) ==
    IF k > Len(rows) THEN <<>>
    ELSE (IF k \in keep THEN <<rows[k]>> ELSE <<>>) \o SelectIndices(rows, keep, k + 1)

\* df[[cols]]
Project(frame, cols) ==
    [cols |-> cols,
     rows |-> [k \in 1..Len(frame.rows) |->
                 [idx |-> frame.rows[k].idx,
                  val |-> [col \in cols |-> frame.rows[k].val[col]]]]]

\* .dropna(subset=[...])
\* (faulty variant: nothing is dropped)
DropNaKeepAll(frame, subset) == frame

DropNa(frame, subset) ==
    [frame EXCEPT !.rows =
        SelectIndices(frame.rows,
                      {k \in 1..Len(frame.rows) :
                          \A col \in subset : frame.rows[k].val[col] # NaN}, 1)]

\* .drop_duplicates(): keep='first', NaN equal to NaN, index labels kept
\* (faulty variant: keep='last')
DropDuplicatesKeepLast(frame) ==
    [frame EXCEPT !.rows =
        SelectIndices(frame.rows,
                      {k \in 1..Len(frame.rows) :
                          \A j \in (k + 1)..Len(frame.rows) :
                              frame.rows[j].val # frame.rows[k].val}, 1)]

DropDuplicates(frame) ==
    [frame EXCEPT !.rows =
        SelectIndices(frame.rows,
                      {k \in 1..Len(frame.rows) :
                          \A j \in 1..(k - 1) :
                              frame.rows[j].val # frame.rows[k].val}, 1)]

\* .rename(columns=mapping): mapping is a set of <<old, new>> pairs
NewName(mapping, col) ==
    IF \E m \in mapping : m[1] = col
    THEN (CHOOSE m \in mapping : m[1] = col)[2]
    ELSE col

OldName(mapping, cols, new) == CHOOSE col \in cols : NewName(mapping, col) = new

Rename(frame, mapping) ==
    LET newcols == {NewName(mapping, col) : col \in frame.cols} IN
    [cols |-> newcols,
     rows |-> [k \in 1..Len(frame.rows) |->
                 [idx |-> frame.rows[k].idx,
                  val |-> [col \in newcols |->
                             frame.rows[k].val[OldName(mapping, frame.cols, col)]]]]]

\* frame[col] = value, for a scalar
AssignScalar(frame, name, value) ==
    [cols |-> frame.cols \cup {name},
     rows |-> [k \in 1..Len(frame.rows) |->
                 [idx |-> frame.rows[k].idx,
                  val |-> [col \in frame.cols \cup {name} |->
                             IF col = name THEN value
                             ELSE frame.rows[k].val[col]]]]]

\* frame[col] = other[src]: the series is aligned on the index labels
SeriesAt(other, src, label) ==
    IF \E k \in 1..Len(other.rows) : other.rows[k].idx = label
    THEN other.rows[CHOOSE k \in 1..Len(other.rows) : other.rows[k].idx = label].val[src]
    ELSE NaN

AssignSeries(frame, name, other, src) ==
    [cols |-> frame.cols \cup {name},
     rows |-> [k \in 1..Len(frame.rows) |->
                 [idx |-> frame.rows[k].idx,
                  val |-> [col \in frame.cols \cup {name} |->
                             IF col = name
                             THEN SeriesAt(other, src, frame.rows[k].idx)
                             ELSE frame.rows[k].val[col]]]]]

\* frame[name] = other[src] only when the source has the column
\* (faulty variant: a missing column is filled with 0)
AssignOrFill(frame, name, other, src) ==
    IF src \in other.cols THEN AssignSeries(frame, name, other, src)
    ELSE AssignScalar(frame, name, 0)

AssignIfPresent(frame, name, other, src) ==
    IF src \in other.cols THEN AssignSeries(frame, name, other, src) ELSE frame

(***************************************************************************)
(* extract_table_data                                                      *)
(***************************************************************************)
TableNames ==
    {"tipo_documento", "canal_cliente", "tipo_pago", "cargo_trabajador",
     "marca_producto", "categoria_producto", "trabajador", "cliente",
     "producto", "pedido", "detalle_pedido"}

\* The columns each table is projected from; the first is its id column.
IdColumn(t) == "id_" \o t

SourceColumns(t) ==
    CASE t = "tipo_documento" -> {"id_tipo_documento", "nombre", "descripcion"}
      [] t = "canal_cliente" -> {"id_canal_cliente", "nombre.1", "descripcion.1"}
      [] t = "tipo_pago" -> {"id_tipo_pago", "nombre_tipo_pago", "descripcion.2"}
      [] t = "cargo_trabajador" -> {"id_cargo_trabajador", "nombre.2", "descripcion.4"}
      [] t = "marca_producto" -> {"id_marca_producto", "nombre_marca"}
      [] t = "categoria_producto" ->
             {"id_categoria_producto", "nombre_categoria", "descripcion.5"}
      [] t = "trabajador" ->
             {"id_trabajador", "nombre trabajador", "correo", "telefono.1",
              "id_cargo_trabajador"}
      [] t = "cliente" ->
             {"id_cliente", "nombre_cliente", "numero_documento", "correo.1",
              "telefono.2", "direccion", "id_tipo_documento", "id_canal_cliente"}
      [] t = "producto" ->
             {"id_producto", "descripcion.6", "precio", "id_marca_producto",
              "id_categoria_producto"}
      [] t = "pedido" ->
             {"id_pedido", "id_trabajador", "id_cliente", "id_tipo_pago", "fecha",
              "monto_total"}
      [] t = "detalle_pedido" ->
             {"id_detalle_pedido", "id_pedido", "id_producto", "cantidad",
              "precio_unitario"}

Renames(t) ==
    CASE t = "canal_cliente" ->
             {<<"nombre.1", "nombre">>, <<"descripcion.1", "descripcion">>}
      [] t = "tipo_pago" -> {<<"descripcion.2", "descripcion">>}
      [] t = "cargo_trabajador" ->
             {<<"nombre.2", "nombre_cargo">>, <<"descripcion.4", "descripcion">>}
      [] t = "categoria_producto" -> {<<"descripcion.5", "descripcion">>}
      [] t = "trabajador" ->
             {<<"nombre trabajador", "nombres">>, <<"correo", "email">>,
              <<"telefono.1", "telefono">>}
      [] t = "cliente" -> {<<"correo.1", "email">>, <<"telefono.2", "telefono">>}
      [] t = "producto" -> {<<"descripcion.6", "descripcion">>}
      [] OTHER -> {}

\* df[[...]].dropna(subset=[id]).drop_duplicates().rename(...)
Deduplicated(frame, t) ==
    Rename(DropDuplicates(DropNa(Project(frame, SourceColumns(t)), {IdColumn(t)})),
           Renames(t))

ExtractTable(frame, t) ==
    LET base == Deduplicated(frame, t) IN
    CASE t = "marca_producto" -> AssignSeries(base, "descripcion", base, "nombre_marca")
      [] t = "trabajador" -> AssignScalar(base, "apellidos", "")
      [] t = "producto" ->
             AssignIfPresent(base, "id_formato_producto", frame, "codigo_formato_producto")
      [] t = "detalle_pedido" ->
             AssignScalar(AssignIfPresent(base, "id_promocion", frame, "id_promocion"),
                          "descuento", 0)
      [] OTHER -> base

extract_table_data(frame) == [t \in TableNames |-> ExtractTable(frame, t)]

(***************************************************************************)
(* The target schema created by create_database_schema (the DDL text).     *)
(***************************************************************************)
StoreTables == TableNames \cup {"formato_producto", "tipo_promocion", "promocion"}

TableColumns(t) ==
    CASE t = "tipo_documento" -> {"id_tipo_documento", "nombre", "descripcion"}
      [] t = "canal_cliente" -> {"id_canal_cliente", "nombre", "descripcion"}
      [] t = "tipo_pago" -> {"id_tipo_pago", "nombre_tipo_pago", "descripcion"}
      [] t = "cargo_trabajador" -> {"id_cargo_trabajador", "nombre_cargo", "descripcion"}
      [] t = "marca_producto" -> {"id_marca_producto", "nombre_marca", "descripcion"}
      [] t = "categoria_producto" ->
             {"id_categoria_producto", "nombre_categoria", "descripcion"}
      [] t = "formato_producto" ->
             {"id_formato_producto", "descripcion", "volumen", "unidad", "id_tipo_formato"}
      [] t = "trabajador" ->
             {"id_trabajador", "nombres", "apellidos", "email", "telefono",
              "id_cargo_trabajador"}
      [] t = "cliente" ->
             {"id_cliente", "nombre_cliente", "numero_documento", "email", "telefono",
              "direccion", "id_tipo_documento", "id_canal_cliente"}
      [] t = "producto" ->
             {"id_producto", "descripcion", "precio", "id_marca_producto",
              "id_categoria_producto", "id_formato_producto"}
      [] t = "tipo_promocion" -> {"id_tipo_promocion", "nombre_tipo", "descripcion"}
      [] t = "promocion" ->
             {"id_promocion", "id_tipo_promocion", "condicion", "beneficio",
              "fecha_inicio", "fecha_fin", "activo"}
      [] t = "pedido" ->
             {"id_pedido", "id_trabajador", "id_cliente", "id_tipo_pago", "fecha",
              "monto_total"}
      [] t = "detalle_pedido" ->
             {"id_detalle_pedido", "id_pedido", "id_producto", "id_promocion",
              "cantidad", "precio_unitario", "descuento"}

NotNullColumns(t) ==
    CASE t = "tipo_documento" -> {"nombre"}
      [] t = "canal_cliente" -> {"nombre"}
      [] t = "tipo_pago" -> {"nombre_tipo_pago"}
      [] t = "cargo_trabajador" -> {"nombre_cargo"}
      [] t = "marca_producto" -> {"nombre_marca"}
      [] t = "categoria_producto" -> {"nombre_categoria"}
      [] t = "trabajador" -> {"nombres"}
      [] t = "cliente" -> {"nombre_cliente"}
      [] t = "producto" -> {"descripcion"}
      [] t = "tipo_promocion" -> {"nombre_tipo"}
      [] t = "pedido" -> {"id_cliente", "id_tipo_pago", "fecha"}
      [] t = "detalle_pedido" ->
             {"id_pedido", "id_producto", "cantidad", "precio_unitario"}
      [] OTHER -> {}

\* FOREIGN KEY (column) REFERENCES G2.table(id_table), as <<column, table>>
ForeignKeys(t) ==
    CASE t = "trabajador" -> {<<"id_cargo_trabajador", "cargo_trabajador">>}
      [] t = "cliente" ->
             {<<"id_tipo_documento", "tipo_documento">>,
              <<"id_canal_cliente", "canal_cliente">>}
      [] t = "producto" ->
             {<<"id_marca_producto", "marca_producto">>,
              <<"id_categoria_producto", "categoria_producto">>,
              <<"id_formato_producto", "formato_producto">>}
      [] t = "promocion" -> {<<"id_tipo_promocion", "tipo_promocion">>}
      [] t = "pedido" ->
             {<<"id_trabajador", "trabajador">>, <<"id_cliente", "cliente">>,
              <<"id_tipo_pago", "tipo_pago">>}
      [] t = "detalle_pedido" ->
             {<<"id_pedido", "pedido">>, <<"id_producto", "producto">>,
              <<"id_promocion", "promocion">>}
      [] OTHER -> {}

References(t) == {fk[2] : fk \in ForeignKeys(t)}

\* DEFAULT clauses; a column without one defaults to NULL
ColumnDefault(t, col) ==
    IF t = "detalle_pedido" /\ col = "descuento" THEN 0
    ELSE IF t = "promocion" /\ col = "activo" THEN 1
    ELSE NaN

NoSchema == <<>>

EmptyStore == [t \in StoreTables |-> <<>>]

SchemaCreated == DOMAIN store = StoreTables

PrimaryKeys(st, t) == {st[t][k][IdColumn(t)] : k \in 1..Len(st[t])}

(***************************************************************************)
(* DataFrame.to_sql(table, if_exists='append', method='multi'): one        *)
(* transaction, so a rejected batch leaves the table as it was.            *)
(***************************************************************************)
\* (faulty variant: a store that does not enforce its foreign keys)
NoForeignKeyCheck(st, t, frame) == TRUE

ForeignKeysHold(st, t, frame) ==
    \A k \in 1..Len(frame.rows) : \A fk \in ForeignKeys(t) :
        (fk[1] \in frame.cols /\ frame.rows[k].val[fk[1]] # NaN)
            => frame.rows[k].val[fk[1]] \in PrimaryKeys(st, fk[2])

NotNullHold(t, frame) ==
    \A k \in 1..Len(frame.rows) : \A col \in NotNullColumns(t) :
        col \in frame.cols /\ frame.rows[k].val[col] # NaN

\* The store accepts the batch (store_fault: it rejects it for a cause the
\* model does not look into, such as a value of the wrong type).
InsertAccepted(st, t, frame, store_fault) ==
    /\ ~store_fault
    /\ t \in DOMAIN st
    /\ frame.cols \subseteq TableColumns(t) \ {IdColumn(t)}
    /\ NotNullHold(t, frame)
    /\ ForeignKeysHold(st, t, frame)

\* IDENTITY(1,1): the k-th row ever stored in the table gets primary key k
StoredRow(st, t, frame, k) ==
    [col \in TableColumns(t) |->
        IF col = IdColumn(t) THEN Len(st[t]) + k
        ELSE IF col \in frame.cols THEN frame.rows[k].val[col]
        ELSE ColumnDefault(t, col)]

\* (faulty variant: if_exists='replace')
ToSqlReplace(st, t, frame) ==
    [st EXCEPT ![t] = [k \in 1..Len(frame.rows) |-> StoredRow(EmptyStore, t, frame, k)]]

ToSql(st, t, frame) ==
    [st EXCEPT ![t] = st[t] \o [k \in 1..Len(frame.rows) |-> StoredRow(st, t, frame, k)]]

(***************************************************************************)
(* load_data_to_database                                                   *)
(***************************************************************************)
load_order ==
    <<"tipo_documento", "canal_cliente", "tipo_pago", "cargo_trabajador",
      "marca_producto", "categoria_producto", "trabajador", "cliente",
      "producto", "pedido", "detalle_pedido">>

\* df_table.drop(columns=[id_column]) when the column is there
DropIdColumn(frame, t) ==
    IF IdColumn(t) \in frame.cols
    THEN Project(frame, frame.cols \ {IdColumn(t)})
    ELSE frame

Succeeded(n) == [ok |-> TRUE, n |-> n]
Failed == [ok |-> FALSE, n |-> 0]

\* The for loop from position k on.  acc = [store, results, attempts];
\* attempts is the sequence of tables whose insert was attempted.
\* on_error_continue is the except clause: record the failure and go on.
RECURSIVE LoadLoop(_, _, _, _, _)
LoadLoop(k, acc, tables, insert_faults, on_error_continue) ==
    IF k > Len(load_order) THEN acc
    ELSE LET t == load_order[k] IN
         IF t \notin DOMAIN tables
         THEN LoadLoop(k + 1, acc, tables, insert_faults, on_error_continue)
         ELSE LET df_table == DropIdColumn(tables[t], t)
                  tried == Append(acc.attempts, t)
              IN IF InsertAccepted(acc.store, t, df_table, t \in insert_faults)
                 THEN LoadLoop(k + 1,
                               [store |-> ToSql(acc.store, t, df_table),
                                results |-> (t :> Succeeded(Len(df_table.rows)))
                                                @@ acc.results,
                                attempts |-> tried],
                               tables, insert_faults, on_error_continue)
                 ELSE IF on_error_continue
                      THEN LoadLoop(k + 1,
                                    [store |-> acc.store,
                                     results |-> (t :> Failed) @@ acc.results,
                                     attempts |-> tried],
                                    tables, insert_faults, on_error_continue)
                      ELSE [store |-> acc.store,
                            results |-> (t :> Failed) @@ acc.results,
                            attempts |-> tried]

\* (faulty variant: the first failed insert ends the loop)
LoadAbortOnError(tables, st, att, insert_faults) ==
    LoadLoop(1, [store |-> st, results |-> <<>>, attempts |-> att],
             tables, insert_faults, FALSE)

load_data_to_database(tables, st, att, insert_faults) ==
    LoadLoop(1, [store |-> st, results |-> <<>>, attempts |-> att],
             tables, insert_faults, TRUE)

(***************************************************************************)
(* validate_data_integrity                                                 *)
(***************************************************************************)
tables_to_check ==
    <<"G2.cliente", "G2.trabajador", "G2.producto", "G2.pedido", "G2.detalle_pedido">>

Qualified(t) == "G2." \o t

CheckedTable(q) == CHOOSE t \in StoreTables : Qualified(t) = q

CountValue(n) == [kind |-> "count", n |-> n]
ErrorValue == [kind |-> "error", n |-> 0]

RECURSIVE ValidateLoop(_, _, _, _, _)
ValidateLoop(k, cnts, st, query_faults, on_error_continue) ==
    IF k > Len(tables_to_check) THEN cnts
    ELSE LET q == tables_to_check[k] IN
         IF q \notin query_faults /\ CheckedTable(q) \in DOMAIN st
         THEN ValidateLoop(k + 1, (q :> CountValue(Len(st[CheckedTable(q)]))) @@ cnts,
                           st, query_faults, on_error_continue)
         ELSE IF on_error_continue
              THEN ValidateLoop(k + 1, (q :> ErrorValue) @@ cnts, st, query_faults,
                                on_error_continue)
              ELSE (q :> ErrorValue) @@ cnts

\* (faulty variant: the first failed query ends the loop)
ValidateAbortOnError(st, query_faults) == ValidateLoop(1, <<>>, st, query_faults, FALSE)

validate_data_integrity(st, query_faults) == ValidateLoop(1, <<>>, st, query_faults, TRUE)

(***************************************************************************)
(* main: the end-of-run summary                                            *)
(***************************************************************************)
\* str(c).isdigit(): a count is a non-negative integer, an error text is not
IsDigit(c) == c.kind = "count"

RECURSIVE SumOver(_, _)
SumOver(f, keys) ==
    IF keys = {} THEN 0
    ELSE LET q == CHOOSE x \in keys : TRUE IN f[q].n + SumOver(f, keys \ {q})

ReportTotal(cnts) == SumOver(cnts, {q \in DOMAIN cnts : IsDigit(cnts[q])})

NoReport == [lines |-> <<>>, total |-> 0]

(***************************************************************************)
(* main, one action per numbered step                                      *)
(***************************************************************************)
Range(seq) == {seq[k] : k \in 1..Len(seq)}

Init ==
    /\ pc = "prerequisites"
    /\ df = EmptyFrame
    /\ tables_data = <<>>
    /\ store = NoSchema
    /\ results = <<>>
    /\ counts = <<>>
    /\ report = NoReport
    /\ attempts = <<>>
    /\ faults = [insert |-> {}, query |-> {}]
    /\ runs = 0
    /\ prev_results = <<>>
    /\ prev_store = NoSchema

\* 1. os.path.exists(excel_file)
CheckPrerequisites ==
    /\ pc = "prerequisites"
    /\ \/ pc' = "connect"
       \/ pc' = "return False: no file"
    /\ UNCHANGED <<df, tables_data, store, results, counts, report, attempts, faults,
                   runs, prev_results, prev_store>>

\* 2. create_connection(): raises ValueError while DATABASE_CONFIG is the template
Connect ==
    /\ pc = "connect"
    /\ \/ pc' = "schema"
       \/ pc' = "return False: exception"
    /\ UNCHANGED <<df, tables_data, store, results, counts, report, attempts, faults,
                   runs, prev_results, prev_store>>

\* 3. create_database_schema(engine): the DDL runs in one transaction
\* (faulty variant: the return value of create_database_schema is ignored)
CreateSchemaIgnoringFailure ==
    /\ pc = "schema"
    /\ \/ store' = EmptyStore
       \/ store' = store
    /\ pc' = "read"
    /\ UNCHANGED <<df, tables_data, results, counts, report, attempts, faults, runs,
                   prev_results, prev_store>>

CreateSchema ==
    /\ pc = "schema"
    /\ \/ /\ store' = EmptyStore
          /\ pc' = "read"
       \/ /\ store' = store
          /\ pc' = "return False: schema"
    /\ UNCHANGED <<df, tables_data, results, counts, report, attempts, faults, runs,
                   prev_results, prev_store>>

\* 4. pd.read_excel(excel_file, sheet_name=data_sheet, header=1)
ReadExcel ==
    /\ pc = "read"
    /\ \/ /\ \E src \in Sources : df' = src
          /\ pc' = "extract"
       \/ /\ df' = df
          /\ pc' = "return False: exception"
    /\ UNCHANGED <<tables_data, store, results, counts, report, attempts, faults, runs,
                   prev_results, prev_store>>

\* 5. extract_table_data(df)
Extract ==
    /\ pc = "extract"
    /\ tables_data' = extract_table_data(df)
    /\ pc' = "load"
    /\ UNCHANGED <<df, store, results, counts, report, attempts, faults, runs,
                   prev_results, prev_store>>

\* One call of load_data_to_database; the store rejects the batches of the
\* tables in insert_faults whatever they hold.
CallLoad(insert_faults) ==
    LET out == load_data_to_database(tables_data, store, attempts, insert_faults) IN
    /\ store' = out.store
    /\ results' = out.results
    /\ attempts' = out.attempts
    /\ faults' = [insert |-> insert_faults, query |-> {}]
    /\ runs' = runs + 1
    /\ prev_results' = results
    /\ prev_store' = store

\* 6. load_data_to_database(tables_data, engine)
Load ==
    /\ pc = "load"
    /\ \E insert_faults \in SUBSET TableNames :
          /\ Cardinality(insert_faults) <= MaxFaults
          /\ CallLoad(insert_faults)
    /\ pc' = "validate"
    /\ UNCHANGED <<df, tables_data, counts, report>>

\* 7. validate_data_integrity(engine); engine.connect() itself may raise
Validate ==
    /\ pc = "validate"
    /\ \/ /\ \E query_faults \in SUBSET Range(tables_to_check) :
                /\ Cardinality(query_faults) + Cardinality(faults.insert) <= MaxFaults
                /\ counts' = validate_data_integrity(store, query_faults)
                /\ faults' = [faults EXCEPT !.query = query_faults]
          /\ pc' = "report"
       \/ /\ counts' = counts
          /\ faults' = faults
          /\ pc' = "return False: exception"
    /\ UNCHANGED <<df, tables_data, store, results, report, attempts, runs,
                   prev_results, prev_store>>

\* 8. the summary: one line per entry of counts, and their total
Report ==
    /\ pc = "report"
    /\ report' = [lines |-> counts, total |-> ReportTotal(counts)]
    /\ pc' = "return True"
    /\ UNCHANGED <<df, tables_data, store, results, counts, attempts, faults, runs,
                   prev_results, prev_store>>

Next ==
    \/ CheckPrerequisites
    \/ Connect
    \/ CreateSchema
    \/ ReadExcel
    \/ Extract
    \/ Load
    \/ Validate
    \/ Report

Spec == Init /\ [][Next]_vars

\* load_data_to_database called again with the same tables_data, on the store
\* the call before left; the batches the store rejected for what they hold
\* are rejected again
Reload ==
    /\ pc = "validate"
    /\ runs < MaxLoads
    /\ CallLoad(faults.insert)
    /\ UNCHANGED <<pc, df, tables_data, counts, report>>

NextReload ==
    \/ Next
    \/ Reload

SpecReload == Init /\ [][NextReload]_vars

(***************************************************************************)
(* Properties                                                              *)
(***************************************************************************)
Extracted == tables_data # <<>>

LoadReturned == runs >= 1

AllSucceeded == LoadReturned /\ \A t \in TableNames : t \in DOMAIN results /\ results[t].ok

\* C1: the load order is a topological sort of the foreign-key graph of the
\* created schema: when the insert of a table T is attempted, the insert of
\* every table R that T is created with a FOREIGN KEY to was attempted before.
C1_LoadOrderTopological ==
    \A k \in 1..Len(attempts) : \A r \in References(attempts[k]) :
        \E j \in 1..(k - 1) : attempts[j] = r

\* C2: partial-failure isolation.  After one call of load_data_to_database the
\* result map has exactly one entry for every table of the load order that has
\* a candidate dataset, every one of them was attempted, in load order, and
\* each table's entry is decided by its own batch and the rows of the tables
\* it references alone: a batch the store accepts is a success with its row
\* count, whatever happened to the other tables.
C2_PartialFailureIsolation ==
    runs = 1 =>
        /\ DOMAIN results = {t \in TableNames : t \in DOMAIN tables_data}
        /\ attempts = SelectSeq(load_order, LAMBDA t : t \in DOMAIN tables_data)
        /\ \A t \in DOMAIN results :
              LET df_table == DropIdColumn(tables_data[t], t) IN
              IF InsertAccepted(store, t, df_table, t \in faults.insert)
              THEN /\ results[t] = Succeeded(Len(df_table.rows))
                   /\ Len(store[t]) = Len(df_table.rows)
              ELSE /\ results[t] = Failed
                   /\ store[t] = <<>>

C2_Witness ==
    /\ runs = 1
    /\ "producto" \in faults.insert
    /\ ~results["producto"].ok
    /\ results["cliente"].ok /\ Len(store["cliente"]) >= 1
    /\ results["trabajador"].ok /\ Len(store["trabajador"]) >= 1
    /\ "pedido" \in DOMAIN results
    /\ "detalle_pedido" \in DOMAIN results

\* C3: referential completeness.  After a load in which every table succeeded,
\* the primary keys of every table are 1..n and every row of detalle_pedido
\* carries an id_pedido and an id_producto that are primary keys of rows of
\* pedido and producto.
C3_ReferentialCompleteness ==
    AllSucceeded =>
        /\ \A t \in TableNames : PrimaryKeys(store, t) = 1..Len(store[t])
        /\ \A k \in 1..Len(store["detalle_pedido"]) :
              /\ store["detalle_pedido"][k]["id_pedido"] \in PrimaryKeys(store, "pedido")
              /\ store["detalle_pedido"][k]["id_producto"]
                     \in PrimaryKeys(store, "producto")

C3_Witness ==
    /\ AllSucceeded
    /\ Len(store["detalle_pedido"]) >= 2
    /\ Len(store["pedido"]) >= 2

\* C4 as stated: when the sheet lacks an optional column, the matching column
\* of the candidate dataset is present and holds its default (NULL) in every
\* row; descuento is 0 and apellidos is the empty string in every row.
C4_DefaultFillAsStated ==
    Extracted =>
        /\ "id_promocion" \notin df.cols =>
              /\ "id_promocion" \in tables_data["detalle_pedido"].cols
              /\ \A k \in 1..Len(tables_data["detalle_pedido"].rows) :
                    tables_data["detalle_pedido"].rows[k].val["id_promocion"] = NaN
        /\ "codigo_formato_producto" \notin df.cols =>
              /\ "id_formato_producto" \in tables_data["producto"].cols
              /\ \A k \in 1..Len(tables_data["producto"].rows) :
                    tables_data["producto"].rows[k].val["id_formato_producto"] = NaN
        /\ \A k \in 1..Len(tables_data["detalle_pedido"].rows) :
              tables_data["detalle_pedido"].rows[k].val["descuento"] = 0
        /\ \A k \in 1..Len(tables_data["trabajador"].rows) :
              tables_data["trabajador"].rows[k].val["apellidos"] = ""

\* C4 as amended: extraction yields all eleven tables whether or not the sheet
\* has the optional columns; the candidate dataset has the column id_promocion
\* (id_formato_producto) exactly when the sheet has id_promocion
\* (codigo_formato_producto), so a missing optional column is left out and the
\* store fills it with NULL; descuento is 0 and apellidos is the empty string
\* in every row.
C4_DefaultFillAmended ==
    Extracted =>
        /\ DOMAIN tables_data = TableNames
        /\ "id_promocion" \in tables_data["detalle_pedido"].cols
              <=> "id_promocion" \in df.cols
        /\ "id_formato_producto" \in tables_data["producto"].cols
              <=> "codigo_formato_producto" \in df.cols
        /\ \A k \in 1..Len(tables_data["detalle_pedido"].rows) :
              tables_data["detalle_pedido"].rows[k].val["descuento"] = 0
        /\ \A k \in 1..Len(tables_data["trabajador"].rows) :
              tables_data["trabajador"].rows[k].val["apellidos"] = ""
        /\ ("id_promocion" \notin df.cols /\ runs = 1 /\ results["detalle_pedido"].ok)
              => \A k \in 1..Len(store["detalle_pedido"]) :
                    store["detalle_pedido"][k]["id_promocion"] = NaN
        /\ ("codigo_formato_producto" \notin df.cols /\ runs = 1
               /\ results["producto"].ok)
              => \A k \in 1..Len(store["producto"]) :
                    store["producto"][k]["id_formato_producto"] = NaN

C4_Witness ==
    /\ Extracted
    /\ df.cols \cap OptionalColumns = {}
    /\ runs = 1
    /\ results["detalle_pedido"].ok /\ Len(store["detalle_pedido"]) >= 1
    /\ results["producto"].ok /\ Len(store["producto"]) >= 1
    /\ Len(tables_data["trabajador"].rows) >= 1

\* The rows of the sheet that have the id column of table t filled in
Identified(t) ==
    {k \in 1..Len(df.rows) : df.rows[k].val[IdColumn(t)] # NaN}

Projection(t, k) == [col \in SourceColumns(t) |-> df.rows[k].val[col]]

\* C5: deduplication.  In every candidate dataset no two rows are equal on
\* all columns, no row comes from a source row whose id column is empty, and
\* there is exactly one row for each distinct projection of the source rows
\* that have the id column filled in.
C5_Deduplication ==
    Extracted =>
        \A t \in TableNames :
            LET rows == tables_data[t].rows IN
            /\ \A a, b \in 1..Len(rows) : a # b => rows[a].val # rows[b].val
            /\ \A a \in 1..Len(rows) : (rows[a].idx + 1) \in Identified(t)
            /\ Len(rows) = Cardinality({Projection(t, k) : k \in Identified(t)})

C5_Witness ==
    /\ Extracted
    /\ Len(df.rows) = 2
    /\ Len(tables_data["cliente"].rows) = 1
    /\ Len(tables_data["detalle_pedido"].rows) = 1
    /\ Len(tables_data["producto"].rows) = 0

\* C6: the end-of-run report lists every table whose load was attempted, with
\* its success count or an error, and its total is the number of rows loaded
\* in the run.
C6_ReportCoversLoad ==
    pc = "return True" =>
        /\ \A t \in DOMAIN results :
              /\ Qualified(t) \in DOMAIN report.lines
              /\ results[t].ok => report.lines[Qualified(t)] = CountValue(results[t].n)
              /\ ~results[t].ok => ~IsDigit(report.lines[Qualified(t)])
        /\ report.total = SumOver(results, {t \in DOMAIN results : results[t].ok})

\* C7: a failed schema creation ends the run with failure before anything is
\* read, extracted, inserted or validated; main goes on to its later steps,
\* and an insert is attempted, only with the schema created.
C7_SchemaCreationFatal ==
    /\ pc = "return False: schema" =>
          /\ ~SchemaCreated
          /\ df = EmptyFrame /\ tables_data = <<>>
          /\ attempts = <<>> /\ results = <<>> /\ runs = 0
          /\ counts = <<>> /\ report = NoReport
    /\ (pc \in {"read", "extract", "load", "validate", "report", "return True"}
           \/ attempts # <<>> \/ df # EmptyFrame \/ Extracted \/ runs > 0
           \/ counts # <<>>)
          => SchemaCreated

C7_Witness == pc = "return False: schema"

\* C8: validate_data_integrity returns exactly one entry for each table of
\* tables_to_check, the row count of the table or, when its query failed, an
\* error, whichever queries failed before it; and it leaves the store as it is.
C8_ValidatePartialResults ==
    /\ [](pc = "report" =>
            /\ DOMAIN counts = Range(tables_to_check)
            /\ \A q \in Range(tables_to_check) :
                  counts[q] = IF q \in faults.query THEN ErrorValue
                              ELSE CountValue(Len(store[CheckedTable(q)])))
    /\ [][pc = "validate" /\ pc' # "validate" => store' = store]_vars

C8_Witness ==
    /\ pc = "report"
    /\ faults.query = {"G2.cliente"}
    /\ counts["G2.cliente"] = ErrorValue
    /\ counts["G2.detalle_pedido"].kind = "count"
    /\ counts["G2.detalle_pedido"].n >= 1

IsPrefix(a, b) == Len(a) <= Len(b) /\ \A k \in 1..Len(a) : b[k] = a[k]

\* C9: load_data_to_database is not idempotent.  A further call with the same
\* candidate datasets leaves every row the store held in place and appends the
\* batch of every table that succeeds again: a table that succeeded in both of
\* two calls holds twice the rows of its candidate dataset.
C9_ReloadDuplicates ==
    runs >= 2 =>
        \A t \in TableNames :
            LET n == Len(tables_data[t].rows) IN
            /\ IsPrefix(prev_store[t], store[t])
            /\ results[t].ok => Len(store[t]) = Len(prev_store[t]) + n
            /\ ~results[t].ok => store[t] = prev_store[t]
            /\ (results[t].ok /\ prev_results[t].ok) =>
                  /\ Len(store[t]) >= 2 * n
                  /\ runs = 2 => Len(store[t]) = 2 * n
                  /\ \A k \in 1..n : \A col \in TableColumns(t) \ {IdColumn(t)} :
                        store[t][Len(prev_store[t]) + k][col]
                            = store[t][Len(prev_store[t]) - n + k][col]

C9_Witness ==
    /\ runs = 2
    /\ \A t \in TableNames : results[t].ok /\ prev_results[t].ok
    /\ Len(store["cliente"]) = 4
    /\ Len(store["detalle_pedido"]) = 4

\* C10: every candidate dataset lists its records in the order of their first
\* occurrence in the sheet: the index labels increase, and each is the first
\* source row with that projection.  Extracting again from df in any later
\* state gives the candidate datasets held (df itself is as it was read).
C10_FirstSeenOrder ==
    Extracted =>
        /\ \A t \in TableNames :
              LET rows == tables_data[t].rows IN
              /\ \A a, b \in 1..Len(rows) : a < b => rows[a].idx < rows[b].idx
              /\ \A a \in 1..Len(rows) : \A k \in 1..rows[a].idx :
                    Projection(t, k) # Projection(t, rows[a].idx + 1)
        /\ tables_data = extract_table_data(df)
        /\ df \in Sources

C10_Witness ==
    /\ Extracted
    /\ Len(df.rows) = 2
    /\ Len(tables_data["cliente"].rows) = 1
    /\ tables_data["cliente"].rows[1].idx = 0
    /\ Len(tables_data["detalle_pedido"].rows) = 2
    /\ tables_data["detalle_pedido"].rows[2].idx = 1

====
